---- MODULE Spec2Model ----
(***************************************************************************)
(* Model of the Nginx log watcher (watcher.py): the sliding error window,  *)
(* the failover detector, the two alert cooldowns, the Slack notifier and  *)
(* the loop of tail_log_file, one action per processed line.               *)
(***************************************************************************)
EXTENDS Integers, Sequences, FiniteSets, TLC

(***************************************************************************)
(* Bounds of the model.                                                    *)
(***************************************************************************)
\* time.time() is followed up to this many seconds after the epoch
MaxTime == 4
\* at most this many admitted responses are fed to the watcher
MaxAdmitted == 11
\* an error burst, then recovery: responses below 500 come only among the
\* last OkTail of the MaxAdmitted admitted responses
OkTail == 2

(***************************************************************************)
(* Configuration (environment variables, lines 16-19).                     *)
(***************************************************************************)
\* ALERT_COOLDOWN_SEC as deployed here (the default is 300)
ALERT_COOLDOWN_SEC == 2
\* "Need minimum requests" of check_error_rate
MinRequests == 10
\* status codes from here on count as errors
ErrorStatus == 500
\* significand width of a Python float (IEEE 754 binary64)
MantissaBits == 53

DefaultThreshold == 2
\* the thresholds and window sizes the watcher is run with
Thresholds == {DefaultThreshold, 55}
WindowSizes == {3, 11}
RateWindowSize == 20
WebhookUrls == {"", "https://hooks.slack.example/T0"}

None == "None"

VARIABLES
    pc,                      \* where main() is
    SLACK_WEBHOOK_URL,
    ERROR_RATE_THRESHOLD,
    WINDOW_SIZE,
    last_pool,
    request_window,
    last_failover_alert,
    last_error_alert,
    clock,                   \* what time.time() returns
    admitted,                \* history: every status appended to request_window
    data,                    \* what parse_log_line returned in the latest step
    found,                   \* the anomalies the latest step identified
    calls,                   \* the send_slack_alert calls of the latest step
    console,                 \* what the latest step printed
    fed,                     \* history: how many admitted responses this run was fed
    known_pool,              \* history: the pool of the latest record with a known pool
    attempts,                \* history: per alert, how many were sent, the latest one
    line_read                \* the line the latest step read, if it read one

vars == <<pc, SLACK_WEBHOOK_URL, ERROR_RATE_THRESHOLD, WINDOW_SIZE, last_pool,
          request_window, last_failover_alert, last_error_alert, clock,
          admitted, data, found, calls, console, fed, known_pool, attempts,
          line_read>>

config == <<SLACK_WEBHOOK_URL, ERROR_RATE_THRESHOLD, WINDOW_SIZE>>

(***************************************************************************)
(* Python float arithmetic of line 132: binary64, round to nearest even.   *)
(* A float is m * 2^e with m a sequence of bits, most significant first.   *)
(***************************************************************************)
RECURSIVE Pow2Mod(_, _)
Pow2Mod(n, d) ==
    IF n = 0 THEN 1 % d
    ELSE LET h == Pow2Mod(n \div 2, d)
         IN  IF n % 2 = 0 THEN (h * h) % d ELSE (2 * h * h) % d

\* the remainder of a * 2^n divided by d
Remainder(a, d, n) == (a * Pow2Mod(n, d)) % d

\* the first n binary digits of a / d after the point, for 0 < a < d
Expand(a, d, n) == [i \in 1..n |-> IF 2 * Remainder(a, d, i - 1) >= d THEN 1 ELSE 0]

RECURSIVE LeadingZeros(_, _)
LeadingZeros(r, d) == IF 2 * r >= d THEN 0 ELSE 1 + LeadingZeros(2 * r, d)

RECURSIVE Bits(_)
Bits(n) == IF n = 0 THEN <<>> ELSE Bits(n \div 2) \o <<n % 2>>

Zeros(n) == [i \in 1..n |-> 0]

Pad(a, n) == Zeros(n - Len(a)) \o a

Add(x, y) ==
    LET n == IF Len(x) > Len(y) THEN Len(x) ELSE Len(y)
        a == Pad(x, n)
        b == Pad(y, n)
        carry(i) == \E j \in (i + 1)..n :
                       /\ a[j] + b[j] = 2
                       /\ \A k \in (i + 1)..(j - 1) : a[k] + b[k] >= 1
        c(i) == IF carry(i) THEN 1 ELSE 0
    IN  (IF carry(0) THEN <<1>> ELSE <<>>) \o [i \in 1..n |-> (a[i] + b[i] + c(i)) % 2]

RoundNearestEven(p) ==
    IF Len(p) <= MantissaBits THEN [m |-> p, e |-> 0]
    ELSE LET m == SubSeq(p, 1, MantissaBits)
             half == p[MantissaBits + 1] = 1
             sticky == \E i \in (MantissaBits + 2)..Len(p) : p[i] = 1
             up == half /\ (sticky \/ m[MantissaBits] = 1)
         IN  [m |-> IF up THEN Add(m, <<1>>) ELSE m, e |-> Len(p) - MantissaBits]

\* error_count / len(request_window) for 0 < a < b
FloatDiv(a, b) ==
    LET z == LeadingZeros(a, b)
        n == z + MantissaBits + 1
        bits == SubSeq(Expand(a, b, n), z + 1, n)
        tail == IF Remainder(a, b, n) # 0 THEN <<1>> ELSE <<>>
        r == RoundNearestEven(bits \o tail)
    IN  [m |-> r.m, e |-> r.e - n - Len(tail)]

\* x * 100 = x * 64 + x * 32 + x * 4, rounded
FloatMul100(x) ==
    LET p == Add(Add(x.m \o Zeros(6), x.m \o Zeros(5)), x.m \o Zeros(2))
        r == RoundNearestEven(p)
    IN  [m |-> r.m, e |-> r.e + x.e]

BigGreater(a, b) ==
    IF Len(a) # Len(b) THEN Len(a) > Len(b)
    ELSE \E i \in 1..Len(a) : a[i] > b[i] /\ \A j \in 1..(i - 1) : a[j] = b[j]

\* x > k for a float x = m * 2^e, e <= 0, and a natural number k
FloatGreater(x, k) ==
    BigGreater(x.m, IF k = 0 THEN <<>> ELSE Bits(k) \o Zeros(0 - x.e))

\* (error_count / len(request_window)) * 100 > threshold, as Python computes it
FloatRateExceeds(error_count, total, threshold) ==
    IF error_count = 0 THEN 0 > threshold
    ELSE IF error_count = total THEN 100 > threshold
    ELSE FloatGreater(FloatMul100(FloatDiv(error_count, total)), threshold)

(***************************************************************************)
(* Log lines.  A line is blank, or some other text LOG_PATTERN does not    *)
(* match, or an access line with the four quoted fields; a field value is  *)
(* text without a double quote (lines 29-34).  upstream_status is kept as  *)
(* its characters, so that split(','), strip() and int() are computed.     *)
(***************************************************************************)
PoolValues == {"blue", "green", "-", ""}
ReleaseValues == {"v1"}
StatusValues ==
    { <<"2", "0", "0">>,
      <<"5", "0", "0">>,
      <<"5", "0", "2", ",", "5", "0", "2", ",", "2", "0", "0">>,
      <<"2", "0", "0", ",", " ", "5", "0", "0">>,
      <<"5", "0", "0", ",">>,
      <<"5", "0", "0", ",", "-">>,
      <<"-">>,
      <<>>,
      <<"a", "b", "c">>,
      <<"0">> }

AccessLines ==
    [form : {"access"}, pool : PoolValues, release : ReleaseValues,
     upstream_status : StatusValues, upstream_addr : {"10.0.0.2:3000"}]

OtherLines ==
    [form : {"blank", "other"}, pool : {""}, release : {""},
     upstream_status : {<<>>}, upstream_addr : {""}]

LogLines == AccessLines \cup OtherLines

\* the step read no line
NoLine == [form |-> "none", pool |-> "", release |-> "", upstream_status |-> <<>>,
           upstream_addr |-> ""]

\* upstream_status of a request answered by the first upstream tried
PlainStatuses == { <<"2", "0", "0">>, <<"5", "0", "0">>, <<"-">> }

\* the answers of the Slack webhook to requests.post (lines 78-89)
Responses == {"200", "500", "timeout"}
\* no request is posted: nothing to send, or no webhook configured (line 38)
NoResponse == "none"
ResponsesTo(posting) == IF posting /\ SLACK_WEBHOOK_URL # "" THEN Responses ELSE {NoResponse}

DigitChars == <<"0", "1", "2", "3", "4", "5", "6", "7", "8", "9">>
IsDigit(c) == \E i \in 1..10 : DigitChars[i] = c
DigitValue(c) == (CHOOSE i \in 1..10 : DigitChars[i] = c) - 1

\* str.split(',')
RECURSIVE Split(_)
Split(s) ==
    IF \A i \in 1..Len(s) : s[i] # ","
    THEN <<s>>
    ELSE LET i == CHOOSE k \in 1..Len(s) : s[k] = "," /\ \A j \in 1..(k - 1) : s[j] # ","
         IN  <<SubSeq(s, 1, i - 1)>> \o Split(SubSeq(s, i + 1, Len(s)))

\* str.strip()
RECURSIVE Strip(_)
Strip(s) ==
    IF s = <<>> THEN s
    ELSE IF Head(s) = " " THEN Strip(Tail(s))
    ELSE IF s[Len(s)] = " " THEN Strip(SubSeq(s, 1, Len(s) - 1))
    ELSE s

RECURSIVE Decimal(_)
Decimal(s) == IF s = <<>> THEN 0 ELSE 10 * Decimal(SubSeq(s, 1, Len(s) - 1)) + DigitValue(s[Len(s)])

\* int(s): an optional sign and decimal digits, ValueError otherwise
ParseInt(s) ==
    LET signed == s # <<>> /\ Head(s) \in {"-", "+"}
        digits == IF signed THEN Tail(s) ELSE s
    IN  IF digits # <<>> /\ \A i \in 1..Len(digits) : IsDigit(digits[i])
        THEN [ok |-> TRUE,
              value |-> IF signed /\ Head(s) = "-" THEN 0 - Decimal(digits) ELSE Decimal(digits)]
        ELSE [ok |-> FALSE, value |-> 0]

\* lines 164-173 with the first status of a retried request instead of the last
StatusCodeOfFirst(upstream_status) ==
    IF upstream_status # <<>> /\ upstream_status # <<"-">>
    THEN LET statuses == Split(upstream_status)
             n == ParseInt(Strip(statuses[1]))
         IN  IF n.ok THEN n.value ELSE 0
    ELSE 0

\* lines 164-173
StatusCode(upstream_status) ==
    IF upstream_status # <<>> /\ upstream_status # <<"-">>
    THEN LET statuses == Split(upstream_status)
             n == ParseInt(Strip(statuses[Len(statuses)]))
         IN  IF n.ok THEN n.value ELSE 0
    ELSE 0

NoData == [parsed |-> FALSE, pool |-> "", release |-> "", upstream_status |-> 0,
           upstream_addr |-> ""]

\* parse_log_line; parsed = FALSE stands for None
parse_log_line(line) ==
    IF line.form # "access" THEN NoData
    ELSE [parsed |-> TRUE,
          pool |-> IF line.pool # "-" THEN line.pool ELSE "unknown",
          release |-> IF line.release # "-" THEN line.release ELSE "unknown",
          upstream_status |-> StatusCode(line.upstream_status),
          upstream_addr |-> line.upstream_addr]

(***************************************************************************)
(* send_slack_alert (lines 36-89): the result and what it prints.          *)
(***************************************************************************)
send_slack_alert(message, alert_type, response) ==
    IF SLACK_WEBHOOK_URL = ""
    THEN [ok |-> FALSE, console |-> <<"No Slack webhook configured">>]
    ELSE IF response = "200"
    THEN [ok |-> TRUE, console |-> <<"Slack alert sent">>]
    ELSE IF response = "timeout"
    THEN [ok |-> FALSE, console |-> <<"Error sending Slack alert">>]
    ELSE [ok |-> FALSE, console |-> <<"Slack alert failed", "Response">>]

Call(message, alert_type, now, sent) ==
    [message |-> message, alert_type |-> alert_type, at |-> now, ok |-> sent.ok]

(***************************************************************************)
(* The cooldown gate (lines 105 and 138).                                  *)
(***************************************************************************)
InCooldown(current_time, last_alert) == current_time - last_alert < ALERT_COOLDOWN_SEC

\* an anomaly a step identified: a change of pool, an error rate above the threshold
NoFailover == [seen |-> FALSE, from |-> None, to |-> None, at |-> -1]
NoErrorRate == [seen |-> FALSE, error_count |-> 0, total |-> 0, at |-> -1]
NothingFound == [failover |-> NoFailover, error |-> NoErrorRate]

\* the latest alert sent of one kind: none yet
NoAttempt == [n |-> 0, at |-> -1]
Attempted(before, call) == [n |-> before.n + 1, at |-> call.at]

(***************************************************************************)
(* check_failover (lines 91-122): the new last_pool and                    *)
(* last_failover_alert, the failover identified, the call, the prints.     *)
(***************************************************************************)
FailoverSkipped ==
    [last_pool |-> last_pool, last_failover_alert |-> last_failover_alert,
     found |-> NoFailover, alerts |-> FALSE, calls |-> <<>>, console |-> <<>>]

\* line 100 with the comparison against None instead of last_pool
PoolChangedOrSet(pool) == pool # None

\* line 100
PoolChanged(pool) == pool # last_pool

\* lines 105-108 with the timestamp set as well: a suppressed failover
\* extends the cooldown
FailoverSuppressedStamped(pool, current_time) ==
    [last_pool |-> pool, last_failover_alert |-> current_time,
     found |-> [seen |-> TRUE, from |-> last_pool, to |-> pool, at |-> current_time],
     alerts |-> FALSE, calls |-> <<>>,
     console |-> <<"Failover detected but in cooldown">>]

\* lines 105-108: in cooldown the pool is recorded and no alert is sent
FailoverSuppressed(pool, current_time) ==
    [last_pool |-> pool, last_failover_alert |-> last_failover_alert,
     found |-> [seen |-> TRUE, from |-> last_pool, to |-> pool, at |-> current_time],
     alerts |-> FALSE, calls |-> <<>>,
     console |-> <<"Failover detected but in cooldown">>]

\* lines 110-122
FailoverAlerted(pool, current_time, response) ==
    LET sent == send_slack_alert("Failover Detected", "failover", response)
    IN  [last_pool |-> pool, last_failover_alert |-> current_time,
         found |-> [seen |-> TRUE, from |-> last_pool, to |-> pool, at |-> current_time],
         alerts |-> TRUE,
         calls |-> <<Call("Failover Detected", "failover", current_time, sent)>>,
         console |-> sent.console \o <<"FAILOVER">>]

\* whether check_failover(pool) at current_time reaches send_slack_alert
FailoverAlerts(pool, current_time) ==
    /\ last_pool # None
    /\ PoolChanged(pool)
    /\ ~InCooldown(current_time, last_failover_alert)

check_failover(pool, current_time, response) ==
    IF last_pool = None
    THEN [FailoverSkipped EXCEPT !.last_pool = pool, !.console = <<"Initial pool">>]
    ELSE IF PoolChanged(pool)
    THEN IF InCooldown(current_time, last_failover_alert)
         THEN FailoverSuppressed(pool, current_time)
         ELSE FailoverAlerted(pool, current_time, response)
    ELSE FailoverSkipped

(***************************************************************************)
(* check_error_rate (lines 124-153) on the window w.                       *)
(***************************************************************************)
ErrorRateSkipped ==
    [last_error_alert |-> last_error_alert, found |-> NoErrorRate,
     alerts |-> FALSE, calls |-> <<>>, console |-> <<>>]

\* line 128 off by one
EnoughRequestsFromNine(w) == ~(Len(w) < MinRequests - 1)

\* line 128
EnoughRequests(w) == ~(Len(w) < MinRequests)

\* line 131
ErrorCount(w) == Cardinality({i \in 1..Len(w) : w[i] >= ErrorStatus})

\* lines 132 and 134, for every window the model builds
RateInputs ==
    { <<n, total, threshold>> : n \in 0..(RateWindowSize + 1),
                                total \in 1..(RateWindowSize + 1),
                                threshold \in Thresholds }

Exceeding == { x \in RateInputs : x[1] <= x[2] /\ FloatRateExceeds(x[1], x[2], x[3]) }

RateExceeded(w) == <<ErrorCount(w), Len(w), ERROR_RATE_THRESHOLD>> \in Exceeding

ErrorRateFound(w, current_time) ==
    [seen |-> TRUE, error_count |-> ErrorCount(w), total |-> Len(w), at |-> current_time]

\* lines 141-153 without line 152: the alert is sent, the timestamp is not set
ErrorRateAlertedUnstamped(w, current_time, response) ==
    LET sent == send_slack_alert("High Error Rate Alert", "error", response)
    IN  [last_error_alert |-> last_error_alert,
         found |-> ErrorRateFound(w, current_time),
         alerts |-> TRUE,
         calls |-> <<Call("High Error Rate Alert", "error", current_time, sent)>>,
         console |-> sent.console \o <<"ERROR RATE">>]

\* lines 141-153 with the timestamp set only when the delivery succeeded
ErrorRateAlertedIfDelivered(w, current_time, response) ==
    LET sent == send_slack_alert("High Error Rate Alert", "error", response)
    IN  [last_error_alert |-> IF sent.ok THEN current_time ELSE last_error_alert,
         found |-> ErrorRateFound(w, current_time),
         alerts |-> TRUE,
         calls |-> <<Call("High Error Rate Alert", "error", current_time, sent)>>,
         console |-> sent.console \o <<"ERROR RATE">>]

\* lines 141-153
ErrorRateAlerted(w, current_time, response) ==
    LET sent == send_slack_alert("High Error Rate Alert", "error", response)
    IN  [last_error_alert |-> current_time,
         found |-> ErrorRateFound(w, current_time),
         alerts |-> TRUE,
         calls |-> <<Call("High Error Rate Alert", "error", current_time, sent)>>,
         console |-> sent.console \o <<"ERROR RATE">>]

\* whether check_error_rate() at current_time reaches send_slack_alert
ErrorRateAlerts(w, current_time) ==
    /\ EnoughRequests(w)
    /\ RateExceeded(w)
    /\ ~InCooldown(current_time, last_error_alert)

check_error_rate(w, current_time, response) ==
    IF ~EnoughRequests(w) THEN ErrorRateSkipped
    ELSE IF RateExceeded(w)
    THEN IF InCooldown(current_time, last_error_alert)
         THEN [ErrorRateSkipped EXCEPT !.found = ErrorRateFound(w, current_time)]
         ELSE ErrorRateAlerted(w, current_time, response)
    ELSE ErrorRateSkipped

(***************************************************************************)
(* The state after the module is loaded (lines 16-26) and main() is        *)
(* entered.                                                                *)
(***************************************************************************)
Init ==
    /\ pc = "Start"
    /\ SLACK_WEBHOOK_URL \in WebhookUrls
    /\ ERROR_RATE_THRESHOLD = DefaultThreshold
    /\ WINDOW_SIZE \in WindowSizes
    /\ last_pool = None
    /\ request_window = <<>>
    /\ last_failover_alert = 0
    /\ last_error_alert = 0
    /\ clock = 0
    /\ admitted = <<>>
    /\ data = NoData
    /\ found = NothingFound
    /\ calls = <<>>
    /\ console = <<>>
    /\ fed = 0
    /\ known_pool = None
    /\ attempts = [failover |-> NoAttempt, error |-> NoAttempt]
    /\ line_read = NoLine

detectors == <<last_pool, request_window, last_failover_alert, last_error_alert,
               admitted, fed, known_pool, attempts>>

\* main without lines 251-259: the watcher starts without a notification
StartupSilent ==
    /\ pc = "Start"
    /\ calls' = <<>>
    /\ console' = <<"Log Watcher Started">>
    /\ pc' = "AwaitingSource"
    /\ data' = NoData
    /\ line_read' = NoLine
    /\ found' = NothingFound
    /\ UNCHANGED <<config, detectors, clock>>

\* main, lines 242-259: the banner and the startup notification
Startup ==
    /\ pc = "Start"
    /\ \E response \in ResponsesTo(TRUE) :
          LET sent == send_slack_alert("Log Watcher Started", "info", response)
          IN  /\ calls' = <<Call("Log Watcher Started", "info", clock, sent)>>
              /\ console' = <<"Log Watcher Started">> \o sent.console
    /\ pc' = "AwaitingSource"
    /\ data' = NoData
    /\ line_read' = NoLine
    /\ found' = NothingFound
    /\ UNCHANGED <<config, detectors, clock>>

\* tail_log_file, lines 188-190: the log file does not exist yet
WaitForSource ==
    /\ pc = "AwaitingSource"
    /\ clock + 2 <= MaxTime
    /\ clock' = clock + 2
    /\ console' = <<"Waiting for log file to be created">>
    /\ calls' = <<>>
    /\ data' = NoData
    /\ line_read' = NoLine
    /\ found' = NothingFound
    /\ UNCHANGED <<pc, config, detectors>>

\* tail_log_file, lines 192-202: the file exists, tail -F is started
OpenSource ==
    /\ pc = "AwaitingSource"
    /\ pc' = "Streaming"
    /\ console' = <<"Log file found">>
    /\ calls' = <<>>
    /\ data' = NoData
    /\ line_read' = NoLine
    /\ found' = NothingFound
    /\ UNCHANGED <<config, detectors, clock>>

\* each line of LogLines with what parse_log_line makes of it
ParsedLines == { <<l, parse_log_line(l)>> : l \in LogLines }

\* line 24 without maxlen: the window grows without bound
WindowAppendUnbounded(w, status) == Append(w, status)

\* a window that drops the new status, not the oldest, once it is full
WindowAppendKeepOldest(w, status) ==
    IF Len(w) < WINDOW_SIZE THEN Append(w, status) ELSE w

\* deque(maxlen=WINDOW_SIZE).append, lines 24 and 223
WindowAppend(w, status) ==
    IF WINDOW_SIZE = 0 THEN w
    ELSE IF Len(w) < WINDOW_SIZE THEN Append(w, status)
    ELSE Append(Tail(w), status)

\* line 222
Admits(status) == status > 0

\* line 226 without the test for 'unknown'
PoolNonEmpty(pool) == pool # ""

\* line 226
PoolKnown(pool) == pool # "" /\ pool # "unknown"

\* the lines the bounds let the model feed in this state: retried and
\* malformed statuses come where the error burst ends
WithinBounds(l, status) ==
    /\ status > 0 =>
          /\ fed < MaxAdmitted
          /\ status < ErrorStatus => fed >= MaxAdmitted - OkTail
    /\ (l.form = "access" /\ l.upstream_status \notin PlainStatuses)
          => fed = MaxAdmitted - OkTail

\* lines 206-216 without the continue of line 216
ParsedOrNot(d) == TRUE

\* lines 206-216: a blank line, or one parse_log_line returns None for, is skipped
Parsed(d) == d.parsed

\* lines 78-89 without the except clause: a delivery that fails ends the loop
LoopUnlessDeliveryFails(fo, er) ==
    IF \E i \in 1..Len(fo.calls \o er.calls) : ~(fo.calls \o er.calls)[i].ok
    THEN "Terminated" ELSE "Streaming"

\* the loop goes on after the line: send_slack_alert has caught whatever
\* requests.post raised (lines 87-89)
LoopAfter(fo, er) == "Streaming"

\* lines 226-230 with check_error_rate called before check_failover
EmittedErrorRateFirst(fo, er) == er.calls \o fo.calls

\* lines 226-230: check_failover is called before check_error_rate
Emitted(fo, er) == fo.calls \o er.calls

\* line 205 read on after the stream has ended
ReadingOrTerminated == pc \in {"Streaming", "Terminated"}

\* line 205
Reading == pc = "Streaming"

\* tail_log_file, lines 205-230: one line of the log; delay is the time that
\* passes between the time.time() of check_failover and of check_error_rate
ProcessLine ==
    /\ Reading
    /\ \E read \in ParsedLines, delay \in 0..1 :
        LET l == read[1]
            d == read[2]
            checks == Parsed(d) /\ PoolKnown(d.pool)
            later == clock + delay
        IN  /\ later <= MaxTime
            /\ WithinBounds(l, d.upstream_status)
            /\ \E w \in {IF Parsed(d) /\ Admits(d.upstream_status)
                          THEN WindowAppend(request_window, d.upstream_status)
                          ELSE request_window} :
               \E r1 \in ResponsesTo(checks /\ FailoverAlerts(d.pool, clock)),
                  r2 \in ResponsesTo(Parsed(d) /\ ErrorRateAlerts(w, later)) :
               \E fo \in {IF checks THEN check_failover(d.pool, clock, r1)
                          ELSE FailoverSkipped},
                  er \in {IF Parsed(d) THEN check_error_rate(w, later, r2)
                          ELSE ErrorRateSkipped} :
                     /\ request_window' = w
                     /\ admitted' = IF d.parsed /\ d.upstream_status > 0
                                    THEN Append(admitted, d.upstream_status)
                                    ELSE admitted
                     /\ fed' = IF d.parsed /\ d.upstream_status > 0 THEN fed + 1 ELSE fed
                     /\ known_pool' = IF d.parsed /\ d.pool \in {"blue", "green"}
                                      THEN d.pool ELSE known_pool
                     /\ attempts' =
                           [failover |-> IF fo.alerts
                                         THEN Attempted(attempts.failover, fo.calls[1])
                                         ELSE attempts.failover,
                            error |-> IF er.alerts
                                      THEN Attempted(attempts.error, er.calls[1])
                                      ELSE attempts.error]
                     /\ last_pool' = fo.last_pool
                     /\ last_failover_alert' = fo.last_failover_alert
                     /\ last_error_alert' = er.last_error_alert
                     /\ found' = [failover |-> fo.found, error |-> er.found]
                     /\ calls' = Emitted(fo, er)
                     /\ console' = fo.console \o er.console
                     /\ data' = d
                     /\ line_read' = l
                     /\ clock' = later
                     /\ pc' = LoopAfter(fo, er)
    /\ UNCHANGED config

\* time passes while readline waits for the next line
Tick ==
    /\ Reading
    /\ clock < MaxTime
    /\ clock' = clock + 1
    /\ data' = NoData
    /\ line_read' = NoLine
    /\ found' = NothingFound
    /\ calls' = <<>>
    /\ console' = <<>>
    /\ UNCHANGED <<pc, config, detectors>>

\* readline returns '': the loop ends, lines 235-238, main returns
EndOfStream ==
    /\ pc = "Streaming"
    /\ pc' = "Terminated"
    /\ data' = NoData
    /\ line_read' = NoLine
    /\ found' = NothingFound
    /\ calls' = <<>>
    /\ console' = <<>>
    /\ UNCHANGED <<config, detectors, clock>>

\* KeyboardInterrupt in tail_log_file, lines 235-238 and 263-264
Interrupt ==
    /\ pc \in {"AwaitingSource", "Streaming"}
    /\ pc' = "Terminated"
    /\ data' = NoData
    /\ line_read' = NoLine
    /\ found' = NothingFound
    /\ calls' = <<>>
    /\ console' = <<"Log watcher stopped by user">>
    /\ UNCHANGED <<config, detectors, clock>>

\* an exception in tail_log_file (Popen or readline fails), lines 232-238
\* and 265-269
Fault ==
    /\ pc \in {"AwaitingSource", "Streaming"}
    /\ \E response \in ResponsesTo(TRUE) :
          LET sent == send_slack_alert("Log Watcher Error", "error", response)
          IN  /\ calls' = <<Call("Log Watcher Error", "error", clock, sent)>>
              /\ console' = <<"Error in tail_log_file", "Error", "traceback">> \o sent.console
    /\ pc' = "Terminated"
    /\ data' = NoData
    /\ line_read' = NoLine
    /\ found' = NothingFound
    /\ UNCHANGED <<config, detectors, clock>>

Next ==
    \/ Startup
    \/ WaitForSource
    \/ OpenSource
    \/ ProcessLine
    \/ Tick
    \/ EndOfStream
    \/ Interrupt
    \/ Fault

Spec == Init /\ [][Next]_vars

(***************************************************************************)
(* The watcher in the middle of a run with a window of RateWindowSize: an  *)
(* error burst followed by recovery has been read, the pool is known, no   *)
(* alert was sent yet, and the last OkTail lines of the feed follow.       *)
(***************************************************************************)
Burst(errors, oks) == [i \in 1..(errors + oks) |-> IF i <= errors THEN 500 ELSE 200]

RateWindows == { Burst(errors, 9) : errors \in 9..10 }

InitRate ==
    /\ pc = "Streaming"
    /\ SLACK_WEBHOOK_URL \in WebhookUrls
    /\ ERROR_RATE_THRESHOLD \in Thresholds
    /\ WINDOW_SIZE = RateWindowSize
    /\ last_pool = "blue"
    /\ request_window \in RateWindows
    /\ last_failover_alert = 0
    /\ last_error_alert = 0
    /\ clock = ALERT_COOLDOWN_SEC
    /\ admitted = request_window
    /\ data = NoData
    /\ found = NothingFound
    /\ calls = <<>>
    /\ console = <<>>
    /\ fed = MaxAdmitted - OkTail
    /\ known_pool = "blue"
    /\ attempts = [failover |-> NoAttempt, error |-> NoAttempt]
    /\ line_read = NoLine

NextRate ==
    \/ ProcessLine
    \/ Tick
    \/ EndOfStream
    \/ Interrupt
    \/ Fault

SpecRate == InitRate /\ [][NextRate]_vars

(***************************************************************************)
(* What a step sent.                                                       *)
(***************************************************************************)
Kinds == {"failover", "error"}
MessageOf == [failover |-> "Failover Detected", error |-> "High Error Rate Alert"]

CallsOf(kind) == {i \in 1..Len(calls) : calls[i].message = MessageOf[kind]}
SentNow(kind) == CallsOf(kind) # {}
SentAt(kind) == calls[CHOOSE i \in CallsOf(kind) : TRUE].at
FailedNow(kind) == \E i \in CallsOf(kind) : ~calls[i].ok
LastAlert(kind) == IF kind = "failover" THEN last_failover_alert ELSE last_error_alert
KnownPools == {"blue", "green"}
\* main() and tail_log_file() only move forward through these
Rank == [Start |-> 0, AwaitingSource |-> 1, Streaming |-> 2, Terminated |-> 3]
\* the startup notification of lines 252-259 is among the calls of the step
StartedSent == \E i \in 1..Len(calls) : calls[i].message = "Log Watcher Started"
\* what the step printed
Logged(note) == \E i \in 1..Len(console) : console[i] = note
\* what send_slack_alert prints when the alert is not delivered (lines 39, 84, 88)
FailureNotes == {"No Slack webhook configured", "Slack alert failed",
                 "Error sending Slack alert"}

(***************************************************************************)
(* C1.  Cooldown gate, for each alert kind: a step sends at most one alert *)
(* of the kind; an alert is never sent less than ALERT_COOLDOWN_SEC after  *)
(* the previous alert of its kind, so anomalies within one cooldown give   *)
(* at most one attempt; and an anomaly identified once the cooldown has    *)
(* elapsed since the last attempt is sent.                                 *)
(***************************************************************************)
C1_CooldownGate ==
    [][\A kind \in Kinds :
          /\ Cardinality(CallsOf(kind))' <= 1
          /\ (SentNow(kind)' /\ attempts[kind].n > 0)
                => SentAt(kind)' - attempts[kind].at >= ALERT_COOLDOWN_SEC
          /\ (found'[kind].seen /\ attempts[kind].n > 0
                /\ found'[kind].at - attempts[kind].at >= ALERT_COOLDOWN_SEC)
                => SentNow(kind)']_vars

\* a failover suppressed within the cooldown of an earlier failover alert, in
\* a run that has sent a second error-rate alert after the cooldown
C1_Witness ==
    /\ attempts.error.n >= 2
    /\ attempts.failover.n >= 1
    /\ found.failover.seen
    /\ ~SentNow("failover")
    /\ found.failover.at - attempts.failover.at < ALERT_COOLDOWN_SEC

(***************************************************************************)
(* C2.  After a record with a known pool, last_pool is that record's pool, *)
(* whether the failover alert was sent or suppressed; and of two failovers *)
(* one second apart, the first with no failover alert before it, with a    *)
(* cooldown above one second, only the first sends an alert and last_pool  *)
(* ends as the target of the second.                                       *)
(***************************************************************************)
C2_OnlyFirstAlerts ==
    [][/\ (data'.parsed /\ data'.pool \in KnownPools) => last_pool' = data'.pool
       /\ (/\ found.failover.seen
            /\ \/ attempts.failover.n = 0
               \/ attempts.failover.n = 1 /\ SentNow("failover")
            /\ found'.failover.seen
            /\ found'.failover.at - found.failover.at = 1
            /\ 1 < ALERT_COOLDOWN_SEC)
            => /\ SentNow("failover")
               /\ ~SentNow("failover")'
               /\ last_pool' = found'.failover.to]_vars

(***************************************************************************)
(* C3.  A record with a known pool signals a failover exactly when an      *)
(* earlier record had a known pool and the latest such pool differs: not   *)
(* on the first known pool, not on a repeated pool; the event goes from    *)
(* that pool to the new one.  No other step signals a failover.            *)
(***************************************************************************)
C3_FailoverSignal ==
    [][IF data'.parsed /\ data'.pool \in KnownPools
       THEN /\ found'.failover.seen <=> (known_pool # None /\ known_pool # data'.pool)
            /\ found'.failover.seen =>
                  (found'.failover.from = known_pool /\ found'.failover.to = data'.pool)
       ELSE ~found'.failover.seen]_vars

C3_Witness ==
    /\ found.failover.seen
    /\ found.failover.from = "blue"
    /\ found.failover.to = "green"
    /\ attempts.failover.n = 0

(***************************************************************************)
(* C4.  An alert kind fires whenever no alert of the kind was sent before, *)
(* whatever the time; once one was sent, an anomaly fires unless less than *)
(* ALERT_COOLDOWN_SEC passed since: an anomaly that sends nothing has an   *)
(* earlier alert of its kind less than the cooldown ago.                   *)
(***************************************************************************)
C4_FiresWithoutPrior ==
    \A kind \in Kinds :
        (found[kind].seen /\ ~SentNow(kind))
            => /\ attempts[kind].n > 0
               /\ found[kind].at - attempts[kind].at < ALERT_COOLDOWN_SEC

(***************************************************************************)
(* C5.  request_window holds exactly the last min(N, WINDOW_SIZE) of the N *)
(* admitted statuses (the parsed statuses above 0), in the order they      *)
(* came: never more than WINDOW_SIZE, the oldest evicted first, none <= 0. *)
(***************************************************************************)
C5_WindowIsTail ==
    LET n == Len(admitted)
        k == IF n < WINDOW_SIZE THEN n ELSE WINDOW_SIZE
    IN  /\ request_window = SubSeq(admitted, n - k + 1, n)
        /\ Len(request_window) <= WINDOW_SIZE
        /\ \A i \in 1..Len(request_window) : request_window[i] > 0

\* entries were evicted, the window holds both kinds of status, and the
\* latest record had a status that is not admitted
C5_Witness ==
    /\ Len(admitted) > WINDOW_SIZE + 1
    /\ Len(request_window) = WINDOW_SIZE
    /\ request_window[1] >= 500
    /\ request_window[2] < 500
    /\ data.parsed
    /\ data.upstream_status = 0

(***************************************************************************)
(* C6.  With fewer than 10 entries in the window no error-rate anomaly is  *)
(* identified and no error-rate alert is sent, even if every entry is 500  *)
(* or more.                                                                *)
(***************************************************************************)
C6_InsufficientData ==
    Len(request_window) < 10 => (~found.error.seen /\ ~SentNow("error"))

C6_Witness ==
    /\ Len(request_window) = 9
    /\ \A i \in 1..9 : request_window[i] >= 500
    /\ WINDOW_SIZE >= 10
    /\ data.parsed
    /\ data.upstream_status >= 500
    /\ clock >= ALERT_COOLDOWN_SEC

(***************************************************************************)
(* C7.  With T >= 10 entries of which E are 500 or more, an error-rate     *)
(* anomaly is identified exactly when E / T * 100 is strictly above the    *)
(* threshold, that is 100 * E > threshold * T; a rate equal to the         *)
(* threshold identifies none.                                              *)
(***************************************************************************)
C7_StrictlyAbove ==
    (data.parsed /\ Len(request_window) >= 10)
        => /\ found.error.seen <=>
                100 * ErrorCount(request_window) > ERROR_RATE_THRESHOLD * Len(request_window)
           /\ found.error.seen =>
                /\ found.error.error_count = ErrorCount(request_window)
                /\ found.error.total = Len(request_window)

(***************************************************************************)
(* C8.  An alert that is sent sets the cooldown timestamp of its kind to   *)
(* the time of sending, whatever send_slack_alert returns; after a failed  *)
(* delivery, an anomaly of that kind within the cooldown sends nothing.    *)
(***************************************************************************)
C8_StampedWhateverDelivery ==
    [][\A kind \in Kinds :
          /\ SentNow(kind)' => LastAlert(kind)' = SentAt(kind)'
          /\ (FailedNow(kind) /\ found'[kind].seen
                /\ found'[kind].at - SentAt(kind) < ALERT_COOLDOWN_SEC)
                => ~SentNow(kind)']_vars

\* an error-rate alert that the webhook refused, stamped all the same
C8_Witness ==
    /\ SLACK_WEBHOOK_URL # ""
    /\ SentNow("error")
    /\ FailedNow("error")
    /\ last_error_alert = SentAt("error")
    /\ last_error_alert >= ALERT_COOLDOWN_SEC

(***************************************************************************)
(* C9.  A cooldown timestamp changes only in a step that sends the alert   *)
(* of its kind, and then to the time of sending: a step that suppresses    *)
(* the anomaly, or identifies none, leaves both timestamps as they were.   *)
(***************************************************************************)
C9_StampOnlyWhenFired ==
    [][\A kind \in Kinds :
          /\ LastAlert(kind)' # LastAlert(kind)
                => (SentNow(kind)' /\ LastAlert(kind)' = SentAt(kind)')
          /\ ~SentNow(kind)' => LastAlert(kind)' = LastAlert(kind)]_vars

\* a failover suppressed after a failover alert, the timestamp still that alert's
C9_Witness ==
    /\ found.failover.seen
    /\ ~SentNow("failover")
    /\ attempts.failover.n >= 1
    /\ last_failover_alert = attempts.failover.at
    /\ last_failover_alert < found.failover.at

(***************************************************************************)
(* C10.  A record whose pool is 'unknown' leaves last_pool and the         *)
(* failover timestamp unchanged and signals no failover; the record after  *)
(* it is compared with the pool known before it: the same pool signals     *)
(* nothing, another pool signals one failover from the earlier pool.       *)
(***************************************************************************)
C10_UnknownPoolIgnored ==
    [][/\ (data'.parsed /\ data'.pool = "unknown")
             => /\ last_pool' = last_pool
                /\ last_failover_alert' = last_failover_alert
                /\ ~found'.failover.seen
                /\ ~SentNow("failover")'
       /\ (data.parsed /\ data.pool = "unknown" /\ data'.parsed
             /\ data'.pool \in KnownPools /\ known_pool # None)
             => /\ found'.failover.seen <=> known_pool # data'.pool
                /\ found'.failover.seen => found'.failover.from = known_pool]_vars

C10_Witness ==
    /\ data.parsed
    /\ data.pool = "unknown"
    /\ last_pool = "blue"
    /\ attempts.failover.n >= 1
    /\ clock - last_failover_alert >= ALERT_COOLDOWN_SEC

(***************************************************************************)
(* C11.  In Streaming, a step that reads a line stays in Streaming,        *)
(* whether the line parses or not and whether the alerts it sends are      *)
(* delivered or not; a delivery that fails (no webhook, a response other   *)
(* than 200, a timeout or connection error) shows as a call that returned  *)
(* False, and a call returns False only with such a failure logged.        *)
(***************************************************************************)
C11_StaysStreaming ==
    [][(pc = "Streaming" /\ line_read' # NoLine)
          => /\ pc' = "Streaming"
             /\ (\E note \in FailureNotes : Logged(note)')
                   <=> (\E i \in 1..Len(calls') : ~calls'[i].ok)]_vars

\* a line whose error-rate alert timed out, the watcher still streaming
C11_Witness ==
    /\ pc = "Streaming"
    /\ line_read.form = "access"
    /\ FailedNow("error")
    /\ Logged("Error sending Slack alert")
    /\ SLACK_WEBHOOK_URL # ""

(***************************************************************************)
(* C12.  Every suppressed or failed alert is logged locally in its step:   *)
(* a failover identified and not sent prints the cooldown message, an      *)
(* error rate above the threshold identified and not sent, an error-rate   *)
(* alert having been sent before, prints something as well, and an alert   *)
(* whose delivery fails prints the failure.                                *)
(***************************************************************************)
C12_SuppressedOrFailedIsLogged ==
    /\ (found.failover.seen /\ ~SentNow("failover"))
          => Logged("Failover detected but in cooldown")
    /\ (found.error.seen /\ ~SentNow("error") /\ attempts.error.n > 0) => console # <<>>
    /\ \A kind \in Kinds :
          FailedNow(kind) => \E note \in FailureNotes : Logged(note)

(***************************************************************************)
(* C13.  A fresh watcher that has been fed ten lines with a server error   *)
(* as final status and then one line with status 200, all by a time below  *)
(* ALERT_COOLDOWN_SEC after its start (so within one cooldown period), has *)
(* sent exactly one error-rate alert, and the window holds the 11 entries, *)
(* 10 of them errors: a rate above the default threshold.                  *)
(***************************************************************************)
C13_ScenarioB ==
    (/\ admitted = Burst(10, 1)
     /\ line_read.form = "access"
     /\ data.upstream_status = 200
     /\ WINDOW_SIZE >= 11
     /\ ERROR_RATE_THRESHOLD = DefaultThreshold
     /\ clock < ALERT_COOLDOWN_SEC)
        => /\ attempts.error.n = 1
           /\ request_window = admitted
           /\ 100 * ErrorCount(request_window) > DefaultThreshold * Len(request_window)

(***************************************************************************)
(* C14.  What a line does to the watcher is a function of the state before *)
(* it, the line and the times: whatever the webhook would have answered,   *)
(* the window, last_pool, both timestamps, the anomalies identified and    *)
(* whether each alert was sent or suppressed are the same.  Two watchers   *)
(* that start alike and are fed the same lines at the same times therefore *)
(* stay alike, step after step.                                            *)
(***************************************************************************)
C14_SameDecisions ==
    [][line_read' # NoLine =>
         \A d \in {data'} :
         \A w \in {IF Parsed(d) /\ Admits(d.upstream_status)
                   THEN WindowAppend(request_window, d.upstream_status)
                   ELSE request_window} :
             /\ request_window' = w
             /\ \A q1 \in Responses \cup {NoResponse} :
                   \A fo \in {IF Parsed(d) /\ PoolKnown(d.pool)
                              THEN check_failover(d.pool, clock, q1)
                              ELSE FailoverSkipped} :
                       /\ last_pool' = fo.last_pool
                       /\ last_failover_alert' = fo.last_failover_alert
                       /\ found'.failover = fo.found
                       /\ SentNow("failover")' = fo.alerts
             /\ \A q2 \in Responses \cup {NoResponse} :
                   \A er \in {IF Parsed(d) THEN check_error_rate(w, clock', q2)
                              ELSE ErrorRateSkipped} :
                       /\ last_error_alert' = er.last_error_alert
                       /\ found'.error = er.found
                       /\ SentNow("error")' = er.alerts]_vars

\* a line that sent both alerts, the failover alert delivered and the
\* error-rate alert refused by the webhook
C14_Witness ==
    /\ line_read.form = "access"
    /\ SentNow("failover")
    /\ ~FailedNow("failover")
    /\ FailedNow("error")
    /\ Logged("Slack alert failed")

(***************************************************************************)
(* C15.  The status recorded for a line is decided by the last token of    *)
(* the comma-separated upstream_status alone: "502,502,200" records 200    *)
(* and "200, 500" records 500; the sentinel "-", the empty value and a     *)
(* last token that is not an integer ("500,", "500,-", "abc") record 0,    *)
(* and a line recorded as 0 leaves the window as it was, while a status    *)
(* above 0 becomes its newest entry.                                       *)
(***************************************************************************)
C15_LastStatusCounts ==
    [][line_read'.form = "access" =>
         LET text == line_read'.upstream_status
             commas == {i \in 1..Len(text) : text[i] = ","}
             from == IF commas = {} THEN 1
                     ELSE 1 + CHOOSE i \in commas : \A j \in commas : j <= i
             token == SubSeq(text, from, Len(text))
             status == CASE token \in {<<"2", "0", "0">>} -> 200
                         [] token \in {<<"5", "0", "0">>, <<" ", "5", "0", "0">>} -> 500
                         [] token \in {<<>>, <<"-">>, <<"a", "b", "c">>, <<"0">>} -> 0
         IN  /\ data'.upstream_status = status
             /\ status = 0 => request_window' = request_window
             /\ (status > 0 /\ WINDOW_SIZE > 0)
                   => request_window'[Len(request_window')] = status]_vars

\* a request retried twice, 502 and 502, then answered 200: 200 is recorded
C15_Witness ==
    /\ line_read.form = "access"
    /\ line_read.upstream_status = <<"5", "0", "2", ",", "5", "0", "2", ",", "2", "0", "0">>
    /\ data.upstream_status = 200
    /\ Len(request_window) = MinRequests
    /\ request_window[MinRequests] = 200
    /\ request_window[MinRequests - 1] >= ErrorStatus

(***************************************************************************)
(* C16 as claimed.  The watcher only moves forward through AwaitingSource, *)
(* Streaming, Terminated, and the 'watcher started' notification is sent   *)
(* exactly in the step that enters Streaming, leaving both cooldown        *)
(* timestamps as they were.                                                *)
(***************************************************************************)
C16_StartedOnStreaming ==
    [][/\ Rank[pc] <= Rank[pc']
       /\ StartedSent' <=> (pc # "Streaming" /\ pc' = "Streaming")
       /\ StartedSent' => UNCHANGED <<last_failover_alert, last_error_alert>>]_vars

(***************************************************************************)
(* C16 as amended.  The watcher only moves forward through AwaitingSource, *)
(* Streaming, Terminated, entering Streaming from AwaitingSource only; the *)
(* 'watcher started' notification is sent exactly in the step that starts  *)
(* the watcher, before it waits for the source, a step taken once; it is   *)
(* sent whatever the cooldown timestamps are and leaves them, the window   *)
(* and last_pool as they were.                                             *)
(***************************************************************************)
C16_StartedOnceAtStartup ==
    [][/\ Rank[pc] <= Rank[pc']
       /\ pc' # "Start"
       /\ pc' = "Streaming" => pc \in {"AwaitingSource", "Streaming"}
       /\ StartedSent' <=> pc = "Start"
       /\ StartedSent' => /\ pc' = "AwaitingSource"
                          /\ Len(calls') = 1
                          /\ UNCHANGED <<last_failover_alert, last_error_alert,
                                         last_pool, request_window>>]_vars

\* the notification delivered at time 0, inside what the zero timestamps
\* would count as a cooldown, the source not yet there
C16_Witness ==
    /\ StartedSent
    /\ pc = "AwaitingSource"
    /\ calls[1].ok
    /\ InCooldown(clock, last_failover_alert)
    /\ InCooldown(clock, last_error_alert)

C18_MismatchDiscarded ==
    [][line_read'.form = "other"
          => /\ UNCHANGED <<request_window, last_pool, last_failover_alert,
                            last_error_alert, pc>>
             /\ data' = NoData
             /\ found' = NothingFound
             /\ calls' = <<>>
             /\ console' = <<>>]_vars

\* an unmatched line read while the window is above the threshold and the
\* cooldown of the last error-rate alert has elapsed
C18_Witness ==
    /\ line_read.form = "other"
    /\ EnoughRequests(request_window)
    /\ RateExceeded(request_window)
    /\ attempts.error.n > 0
    /\ ~InCooldown(clock, last_error_alert)
    /\ calls = <<>>

(***************************************************************************)
(* C19.  For a line the window is updated first, so an error rate that is  *)
(* identified is that of the window with the line's status in it; the      *)
(* failover alert, if any, is sent before the error-rate alert and not     *)
(* later in time.  The two kinds do not touch each other's state:          *)
(* last_error_alert changes only with an error-rate alert sent,            *)
(* last_failover_alert only with a failover alert sent, and last_pool only *)
(* to the known pool of the line, whatever happens to the error rate.      *)
(***************************************************************************)
C19_FailoverThenErrorRate ==
    [][line_read' # NoLine
          => /\ found'.error.seen
                   => /\ found'.error.total = Len(request_window')
                      /\ found'.error.error_count = ErrorCount(request_window')
             /\ \A i, j \in 1..Len(calls') :
                   (calls'[i].message = MessageOf.failover
                      /\ calls'[j].message = MessageOf.error)
                   => (i < j /\ calls'[i].at <= calls'[j].at)
             /\ last_error_alert' # last_error_alert => SentNow("error")'
             /\ last_failover_alert' # last_failover_alert => SentNow("failover")'
             /\ (found'.failover.seen /\ ~SentNow("error")')
                   => last_error_alert' = last_error_alert
             /\ (found'.error.seen /\ ~SentNow("failover")')
                   => last_failover_alert' = last_failover_alert
             /\ last_pool' = IF data'.parsed /\ PoolKnown(data'.pool)
                             THEN data'.pool ELSE last_pool]_vars

\* one line sent both alerts, the failover alert first and a second earlier
C19_Witness ==
    /\ Len(calls) = 2
    /\ calls[1].message = MessageOf.failover
    /\ calls[2].message = MessageOf.error
    /\ calls[1].at < calls[2].at
    /\ last_failover_alert = calls[1].at
    /\ last_error_alert = calls[2].at

(***************************************************************************)
(* C20.  With WINDOW_SIZE below 10 the window never reaches the 10 entries *)
(* check_error_rate asks for: no error rate is ever identified and no      *)
(* error-rate alert is ever sent, whatever the lines.                      *)
(***************************************************************************)
C20_SmallWindowNeverAlerts ==
    WINDOW_SIZE < 10
        => /\ Len(request_window) < 10
           /\ ~found.error.seen
           /\ ~SentNow("error")
           /\ attempts.error.n = 0

\* a window of capacity 3 full of errors after ten admitted errors and more,
\* the cooldown elapsed: nothing was identified or sent
C20_Witness ==
    /\ WINDOW_SIZE = 3
    /\ Len(admitted) > MinRequests
    /\ \A i \in 1..MinRequests : admitted[i] >= ErrorStatus
    /\ Len(request_window) = WINDOW_SIZE
    /\ line_read.form = "access"
    /\ data.upstream_status >= ErrorStatus
    /\ ~InCooldown(clock, last_error_alert)

====
